---- MODULE Spec2Model ----
(***************************************************************************)
(* Model of arm_bin2elf.py: the conversion of a flat ARM firmware image    *)
(* into an ELF file (scan for .ARM.exidx, settle .text/.data/.bss, order   *)
(* and size the sections, patch the ELF template).                         *)
(*                                                                         *)
(* Numbers.  The program computes with unbounded Python integers and, in   *)
(* prel31_to_addr, with a 32-bit c_uint.  TLC integers are 32-bit signed,  *)
(* so a program integer n is carried as the pair <<h, l>> with             *)
(* n = h * 2^16 + l and 0 <= l < 2^16 (h may be negative).  File positions *)
(* inside the image, counters and byte values are plain integers.          *)
(***************************************************************************)
EXTENDS Integers, Sequences, FiniteSets, TLC

Lim == 256 * 256

\* F(e), with e evaluated once and F applied to its value: the way a program
\* variable holds the result of a call
Eval(e, F(_)) == CHOOSE r \in {F(v) : v \in {e}} : TRUE

Norm(h, l) == <<h + (l \div Lim), l % Lim>>
W(n) == Norm(0, n)
wAdd(a, b) == Norm(a[1] + b[1], a[2] + b[2])
wSub(a, b) == Norm(a[1] - b[1], a[2] - b[2])
wLt(a, b) == a[1] < b[1] \/ (a[1] = b[1] /\ a[2] < b[2])
wLe(a, b) == a[1] < b[1] \/ (a[1] = b[1] /\ a[2] <= b[2])
wGt(a, b) == wLt(b, a)
wGe(a, b) == wLe(b, a)
wNeg(a) == a[1] < 0
\* n % m for a modulus m that divides 2^16 (2, 4, 8, 16, 32)
wMod(a, m) == a[2] % m
\* a program integer known to lie in 0 .. 2^16-1, as a plain integer
wSmall(a) == a[2]
wIsSmall(a) == a[1] = 0

Min(a, b) == IF a <= b THEN a ELSE b

(***************************************************************************)
(* AddressMath                                                             *)
(***************************************************************************)

\* c_uint(n).value : n modulo 2^32
c_uint(n) == <<n[1] % Lim, n[2]>>

\* a faulty sign_extend: the sign bit is masked off and not subtracted
sign_extend_unsigned(value, bits) ==
    LET sign_hi == 2 ^ (bits - 1 - 16)
    IN  <<value[1] % sign_hi, value[2]>>

\* sign_extend(value, bits) for 17 <= bits <= 32 and 0 <= value:
\*   sign_bit = 1 << (bits - 1)
\*   (value & (sign_bit - 1)) - (value & sign_bit)
sign_extend(value, bits) ==
    LET sign_hi == 2 ^ (bits - 1 - 16)
        low     == <<value[1] % sign_hi, value[2]>>
        sign    == <<((value[1] \div sign_hi) % 2) * sign_hi, 0>>
    IN  wSub(low, sign)

prel31_to_addr(ptr, refptr) ==
    LET offset == sign_extend(ptr, 31)
    IN  c_uint(wAdd(refptr, offset))

(***************************************************************************)
(* The image file (fwpartfile): a sequence of bytes; positions count from  *)
(* 0.  read(n) at a position returns what is there, at most n bytes, and   *)
(* nothing at or after the end of the file.                                *)
(***************************************************************************)

file_read(file, pos, n) ==
    IF pos >= Len(file) \/ n <= 0 THEN <<>>
    ELSE SubSeq(file, pos + 1, Min(pos + n, Len(file)))

\* a little-endian c_uint from 4 bytes
le_uint(b) == <<b[3] + 256 * b[4], b[1] + 256 * b[2]>>

\* sizeof(ExIdxEntry): two packed c_uint
SizeofExIdxEntry == 8
SizeofCUint == 4

\* ExIdxEntry as readinto() fills it from 8 bytes
ExIdxEntry(b) == [tboffs |-> le_uint(SubSeq(b, 1, 4)), entry |-> le_uint(SubSeq(b, 5, 8))]

\* x & y for 0 <= x, y < 2^16, bit by bit from bit i up
RECURSIVE BitAndFrom(_, _, _)
BitAndFrom(x, y, i) ==
    IF i > 15 THEN 0
    ELSE ((x \div (2 ^ i)) % 2) * ((y \div (2 ^ i)) % 2) * (2 ^ i) + BitAndFrom(x, y, i + 1)
BitAnd(x, y) == BitAndFrom(x, y, 0)

\* value & mask, both in 0 .. 2^32-1
wAnd(a, m) == <<BitAnd(a[1], m[1]), BitAnd(a[2], m[2])>>

Zero == <<0, 0>>
Hex80000000 == <<32768, 0>>
Hex70000000 == <<28672, 0>>

(***************************************************************************)
(* EntryValidator.  The verdict is "accept" (True), "reject" (False) or    *)
(* "raise": seek() to a negative position raises, which ends the run.      *)
(***************************************************************************)

\* a faulty range test: the first function_align bytes of .text are excluded too
not_in_text_after_first(offs, memaddr_base, arr_pos, func_align) ==
    \/ wLe(offs, wAdd(memaddr_base, W(func_align)))
    \/ wGe(offs, wAdd(memaddr_base, W(arr_pos)))
    \/ wMod(offs, func_align) # 0

\* the test of lines 129 and 163: offs is no function start inside .text, which
\* spans memaddr_base .. memaddr_base+arr_pos
not_in_text(offs, memaddr_base, arr_pos, func_align) ==
    \/ wLe(offs, memaddr_base)
    \/ wGe(offs, wAdd(memaddr_base, W(arr_pos)))
    \/ wMod(offs, func_align) # 0

armfw_is_proper_ARMexidx_entry(expect_sect_align, fwpartfile, eexidx, memaddr_base, func_align, arr_pos, ent_pos) ==
    IF eexidx.tboffs = Zero \/ wAnd(eexidx.tboffs, Hex80000000) # Zero THEN "reject"
    ELSE
    LET glob_offs == prel31_to_addr(eexidx.tboffs, wAdd(memaddr_base, W(ent_pos)))
        arr_end   == wAdd(memaddr_base, W(arr_pos))
    IN
    IF not_in_text(glob_offs, memaddr_base, arr_pos, func_align)
    THEN "reject"
    ELSE IF eexidx.entry = W(1) THEN "accept"
    ELSE IF wAnd(eexidx.entry, Hex80000000) # Zero
    THEN (IF wAnd(eexidx.entry, Hex70000000) # Zero THEN "reject" ELSE "accept")
    ELSE
    LET tbent_offs == prel31_to_addr(eexidx.entry, wAdd(memaddr_base, W(ent_pos)))
        ent_addr   == wAdd(memaddr_base, W(ent_pos))
    IN
    IF \/ /\ wGe(tbent_offs, wSub(arr_end, W(expect_sect_align * 16)))
          /\ wLe(tbent_offs, wSub(arr_end, W(4)))
       \/ /\ wLt(tbent_offs, wAdd(ent_addr, W(expect_sect_align * 32)))
          /\ wGe(tbent_offs, wAdd(ent_addr, W(SizeofExIdxEntry)))
    THEN
        IF wMod(tbent_offs, 4) # 0 THEN "reject"
        ELSE
        LET seekpos == wSub(tbent_offs, memaddr_base) IN
        IF wNeg(seekpos) THEN "raise"
        ELSE IF ~wIsSmall(seekpos) THEN "reject"
        ELSE
        LET buf == file_read(fwpartfile, wSmall(seekpos), SizeofCUint) IN
        IF Len(buf) # SizeofCUint THEN "reject"
        ELSE
        LET pers_routine_offs == le_uint(buf) IN
        IF not_in_text(pers_routine_offs, memaddr_base, arr_pos, func_align)
        THEN "reject"
        ELSE "accept"
    ELSE "reject"

(***************************************************************************)
(* ExceptionIndexScanner                                                   *)
(***************************************************************************)

\* the inner loop: count the proper entries from entry_pos on
RECURSIVE exidx_count_entries(_, _, _, _, _, _, _)
exidx_count_entries(expect_sect_align, fwpartfile, memaddr_base, func_align, pos, entry_pos, entry_count) ==
    Eval(file_read(fwpartfile, entry_pos, SizeofExIdxEntry), LAMBDA buf :
    IF Len(buf) # SizeofExIdxEntry
    THEN [reached_eof |-> TRUE, raised |-> FALSE, entry_count |-> entry_count, entry_pos |-> entry_pos]
    ELSE
    Eval(Eval(ExIdxEntry(buf), LAMBDA eexidx :
              armfw_is_proper_ARMexidx_entry(expect_sect_align, fwpartfile, eexidx,
                                             memaddr_base, func_align, pos, entry_pos)), LAMBDA v :
    IF v = "raise"
    THEN [reached_eof |-> FALSE, raised |-> TRUE, entry_count |-> entry_count, entry_pos |-> entry_pos]
    ELSE IF v = "reject"
    THEN [reached_eof |-> FALSE, raised |-> FALSE, entry_count |-> entry_count, entry_pos |-> entry_pos]
    ELSE exidx_count_entries(expect_sect_align, fwpartfile, memaddr_base, func_align,
                             pos, entry_pos + SizeofExIdxEntry, entry_count + 1)))

\* a faulty padding test: any fill of one byte value passes
exidx_padding_bad_any_fill(fwpartfile, entry_pos, sect_align) ==
    IF entry_pos % sect_align > 0
    THEN LET padding == file_read(fwpartfile, entry_pos, sect_align - (entry_pos % sect_align))
         IN  Cardinality({padding[i] : i \in 1..Len(padding)}) > 1
    ELSE FALSE

\* the padding after a run that does not end on a section boundary:
\* TRUE when the run is to be dropped
exidx_padding_bad(fwpartfile, entry_pos, sect_align) ==
    IF entry_pos % sect_align > 0
    THEN LET padding == file_read(fwpartfile, entry_pos, sect_align - (entry_pos % sect_align))
         IN  padding[1] # 0 \/ Cardinality({padding[i] : i \in 1..Len(padding)}) > 1
    ELSE FALSE

\* a faulty pass of the outer loop: the first match is kept
exidx_scan_step_first_match(expect_sect_align, fwpartfile, memaddr_base, func_align, sect_align, pos, m) ==
    Eval(exidx_count_entries(expect_sect_align, fwpartfile, memaddr_base, func_align, pos, pos, 0), LAMBDA run :
    IF run.raised THEN [m EXCEPT !.raised = TRUE, !.done = TRUE]
    ELSE IF run.reached_eof THEN [m EXCEPT !.done = TRUE]
    ELSE
    LET entry_count == IF run.entry_count > 0 /\ exidx_padding_bad(fwpartfile, run.entry_pos, sect_align)
                       THEN 0 ELSE run.entry_count
    IN  IF entry_count > 0
        THEN IF m.match_count = 0
             THEN [m EXCEPT !.match_pos = pos, !.match_entries = entry_count, !.match_count = 1]
             ELSE [m EXCEPT !.match_count = m.match_count + 1]
        ELSE m)

\* one pass of the outer loop, at candidate position pos; m.done is the
\* loop's break
exidx_scan_step(expect_sect_align, fwpartfile, memaddr_base, func_align, sect_align, pos, m) ==
    Eval(exidx_count_entries(expect_sect_align, fwpartfile, memaddr_base, func_align, pos, pos, 0), LAMBDA run :
    IF run.raised THEN [m EXCEPT !.raised = TRUE, !.done = TRUE]
    ELSE IF run.reached_eof THEN [m EXCEPT !.done = TRUE]
    ELSE
    LET entry_count == IF run.entry_count > 0 /\ exidx_padding_bad(fwpartfile, run.entry_pos, sect_align)
                       THEN 0 ELSE run.entry_count
    IN  IF entry_count > 0
        THEN [m EXCEPT !.match_pos = pos, !.match_entries = entry_count,
                       !.match_count = m.match_count + 1]
        ELSE m)

\* the outer loop over the candidate positions start_pos + k * sect_align,
\* k = lo .. hi, in order (evaluated by halving the range, which keeps the
\* evaluation shallow; the passes and their order are the loop's)
RECURSIVE exidx_scan(_, _, _, _, _, _, _, _, _)
exidx_scan(expect_sect_align, fwpartfile, memaddr_base, func_align, sect_align, start_pos, lo, hi, m) ==
    IF m.done THEN m
    ELSE IF lo = hi
    THEN exidx_scan_step(expect_sect_align, fwpartfile, memaddr_base, func_align, sect_align,
                         start_pos + lo * sect_align, m)
    ELSE LET mid == (lo + hi) \div 2 IN
         Eval(exidx_scan(expect_sect_align, fwpartfile, memaddr_base, func_align, sect_align, start_pos, lo, mid, m),
              LAMBDA m1 :
              exidx_scan(expect_sect_align, fwpartfile, memaddr_base, func_align, sect_align, start_pos, mid + 1, hi, m1))

\* a faulty record scan: the length is returned in entries, not in bytes
armfw_detect_sect_ARMexidx_len_in_entries(expect_sect_align, fwpartfile, memaddr_base, start_pos, func_align, sect_align) ==
    Eval(exidx_scan(expect_sect_align, fwpartfile, memaddr_base, func_align, sect_align, start_pos,
                    0, Len(fwpartfile) \div sect_align + 1,
                    [match_count |-> 0, match_pos |-> -1, match_entries |-> 0,
                     raised |-> FALSE, done |-> FALSE]), LAMBDA m :
        IF m.raised THEN [pos |-> -1, len |-> 0, match_count |-> m.match_count, raised |-> TRUE]
        ELSE IF m.match_count < 1 THEN [pos |-> -1, len |-> 0, match_count |-> 0, raised |-> FALSE]
        ELSE [pos |-> m.match_pos, len |-> m.match_entries,
              match_count |-> m.match_count, raised |-> FALSE])

\* returns [pos, len] (pos = -1: not found), with the number of matches
\* (the warning is written when it exceeds 1) and whether a read raised.
\* The loop ends at the first candidate whose read meets the end of the
\* file, at the latest the one at or after Len(fwpartfile).
armfw_detect_sect_ARMexidx(expect_sect_align, fwpartfile, memaddr_base, start_pos, func_align, sect_align) ==
    Eval(exidx_scan(expect_sect_align, fwpartfile, memaddr_base, func_align, sect_align, start_pos,
                    0, Len(fwpartfile) \div sect_align + 1,
                    [match_count |-> 0, match_pos |-> -1, match_entries |-> 0,
                     raised |-> FALSE, done |-> FALSE]), LAMBDA m :
        IF m.raised THEN [pos |-> -1, len |-> 0, match_count |-> m.match_count, raised |-> TRUE]
        ELSE IF m.match_count < 1 THEN [pos |-> -1, len |-> 0, match_count |-> 0, raised |-> FALSE]
        ELSE [pos |-> m.match_pos, len |-> m.match_entries * SizeofExIdxEntry,
              match_count |-> m.match_count, raised |-> FALSE])

(***************************************************************************)
(* EmptyRegionScanner                                                      *)
(***************************************************************************)

\* a faulty pass of the empty-region scan: no break at the end of a zero run
empty_scan_step_no_break(fwpartfile, sect_align, pos, m) ==
    Eval(file_read(fwpartfile, pos, sect_align), LAMBDA buf :
    IF Len(buf) # sect_align THEN [m EXCEPT !.done = TRUE]
    ELSE
    LET buf_set == {buf[i] : i \in 1..Len(buf)} IN
    IF 0 \in buf_set /\ Cardinality(buf_set) = 1
    THEN [m EXCEPT !.match_pos = pos + sect_align, !.match_count = m.match_count + 1]
    ELSE m)

\* one pass of the loop, on the window at pos
empty_scan_step(fwpartfile, sect_align, pos, m) ==
    Eval(file_read(fwpartfile, pos, sect_align), LAMBDA buf :
    IF Len(buf) # sect_align THEN [m EXCEPT !.done = TRUE]
    ELSE
    LET buf_set == {buf[i] : i \in 1..Len(buf)} IN
    IF 0 \in buf_set /\ Cardinality(buf_set) = 1
    THEN [m EXCEPT !.match_pos = pos + sect_align, !.match_count = m.match_count + 1]
    ELSE IF m.match_count > 0 THEN [m EXCEPT !.done = TRUE]
    ELSE m)

\* the loop over the windows start_pos + k * sect_align, k = lo .. hi, in order
RECURSIVE empty_scan(_, _, _, _, _, _)
empty_scan(fwpartfile, sect_align, start_pos, lo, hi, m) ==
    IF m.done THEN m
    ELSE IF lo = hi THEN empty_scan_step(fwpartfile, sect_align, start_pos + lo * sect_align, m)
    ELSE LET mid == (lo + hi) \div 2 IN
         Eval(empty_scan(fwpartfile, sect_align, start_pos, lo, mid, m), LAMBDA m1 :
              empty_scan(fwpartfile, sect_align, start_pos, mid + 1, hi, m1))

armfw_detect_empty_sect_ARMexidx(fwpartfile, memaddr_base, start_pos, func_align, sect_align) ==
    Eval(empty_scan(fwpartfile, sect_align, start_pos, 0, Len(fwpartfile) \div sect_align + 1,
                    [match_count |-> 0, match_pos |-> -1, done |-> FALSE]), LAMBDA m :
        IF m.match_count < 1 THEN [pos |-> -1, len |-> 0]
        ELSE [pos |-> m.match_pos, len |-> 0])

(***************************************************************************)
(* Python dictionaries (po.section_addr, po.section_size): the keys in     *)
(* insertion order, and the value of each.                                 *)
(***************************************************************************)

EmptyDict == [keys |-> <<>>, val |-> <<>>]
dict_has(d, k) == k \in DOMAIN d.val
dict_set(d, k, v) ==
    IF dict_has(d, k) THEN [d EXCEPT !.val[k] = v]
    ELSE [keys |-> Append(d.keys, k), val |-> (k :> v) @@ d.val]

\* re.search('^[.]bss[0-9]+$', sectname), on the section names of the model
IsBssN(sectname) == sectname \in {".bss2", ".bss3"}

\* re.search('^(?P<name>[.].*[^0-9])(?P<num>[0-9]+)$', sectname): <<>> when
\* there is no match, else <<[name, num]>>
NumSuffix(sectname) ==
    CASE sectname = ".bss2" -> <<[name |-> ".bss", num |-> 2]>>
      [] sectname = ".bss3" -> <<[name |-> ".bss", num |-> 3]>>
      [] sectname = ".ram2" -> <<[name |-> ".ram", num |-> 2]>>
      [] OTHER -> <<>>

\* '{:s}{:d}'.format(name, num)
NameNum(name, num) ==
    CASE name = ".bss" /\ num = 1 -> ".bss1"
      [] name = ".bss" /\ num = 2 -> ".bss2"
      [] name = ".ram" /\ num = 1 -> ".ram1"
      [] OTHER -> "?"

\* addrspace_limit = 2**32 - 1
AddrspaceLimit == <<65535, 65535>>
HexFFFFFFFF == <<65535, 65535>>

(***************************************************************************)
(* main(): the --section parameters flattened into po.section_addr and     *)
(* po.section_size, and the address space length expanded to the end of    *)
(* the highest section given.  A parameter is [name, addr, len], addr and  *)
(* len being <<>> (not given) or <<n>>.                                    *)
(***************************************************************************)

RECURSIVE flatten_sections(_, _, _, _)
flatten_sections(section, i, addr, size) ==
    IF i > Len(section) THEN [section_addr |-> addr, section_size |-> size]
    ELSE LET s == section[i] IN
         Eval(IF s.addr # <<>> THEN dict_set(addr, s.name, s.addr[1]) ELSE addr, LAMBDA addr1 :
         Eval(IF s.len # <<>> THEN dict_set(size, s.name, s.len[1]) ELSE size, LAMBDA size1 :
              flatten_sections(section, i + 1, addr1, size1)))

\* max(po.section_addr, key=po.section_addr.get): the first key, in
\* insertion order, of the highest address
dict_max_key(d) ==
    LET n == Len(d.keys)
        i == CHOOSE i \in 1..n :
                /\ \A j \in 1..n : wLe(d.val[d.keys[j]], d.val[d.keys[i]])
                /\ \A j \in 1..(i - 1) : wLt(d.val[d.keys[j]], d.val[d.keys[i]])
    IN  d.keys[i]

main_options(po) ==
    Eval(flatten_sections(po.section, 1, EmptyDict, EmptyDict), LAMBDA f :
    LET p1 == [po EXCEPT !.section_addr = f.section_addr, !.section_size = f.section_size] IN
    IF Len(p1.section_addr.keys) > 0
    THEN LET sect_last == dict_max_key(p1.section_addr) IN
         IF ~dict_has(p1.section_size, sect_last)
         THEN [err |-> "KeyError", po |-> p1]
         ELSE LET last_section_end ==
                      wSub(wAdd(p1.section_addr.val[sect_last], p1.section_size.val[sect_last]), p1.baseaddr)
              IN  IF wGt(last_section_end, p1.addrspacelen)
                  THEN [err |-> "",
                        po |-> [p1 EXCEPT !.addrspacelen =
                                   IF wLt(last_section_end, HexFFFFFFFF) THEN last_section_end ELSE HexFFFFFFFF]]
                  ELSE [err |-> "", po |-> p1]
    ELSE [err |-> "", po |-> p1])

(***************************************************************************)
(* SectionLayoutResolver.  Each settle function gives [err, po] and, the   *)
(* first, the scans it ran and the warnings they wrote.                    *)
(***************************************************************************)

armfw_bin2elf_settle_sect_ARMexidx(po, fwpartfile) ==
    LET sectname == ".ARM.exidx"
        setsize(p, sect_len) ==
            IF ~dict_has(p.section_size, sectname)
            THEN [p EXCEPT !.section_size = dict_set(p.section_size, sectname, sect_len)]
            ELSE p
        found(sect_pos, sect_len) ==
            setsize([po EXCEPT !.section_addr = dict_set(po.section_addr, sectname, wAdd(po.baseaddr, W(sect_pos)))],
                    W(sect_len))
        warn(r, a) == IF r.match_count > 1 /\ ~r.raised THEN <<[w |-> "multiple matches", align |-> a]>> ELSE <<>>
        scan(kind, a, r, n) == [kind |-> kind, align |-> a, pos |-> r.pos, len |-> r.len, match_count |-> n]
    IN
    IF ~dict_has(po.section_addr, sectname)
    THEN
        LET a1 == po.expect_sect_align IN
        Eval(armfw_detect_sect_ARMexidx(po.expect_sect_align, fwpartfile, po.baseaddr, 0, po.expect_func_align, a1),
             LAMBDA r1 :
        LET s1 == <<scan("exidx", a1, r1, r1.match_count)>> IN
        IF r1.raised THEN [err |-> "seek", po |-> po, scans |-> s1, warnings |-> <<>>]
        ELSE IF r1.pos >= 0
        THEN [err |-> "", scans |-> s1, warnings |-> warn(r1, a1), po |-> found(r1.pos, r1.len)]
        ELSE
        LET a2 == po.expect_sect_align \div 2 IN
        Eval(armfw_detect_sect_ARMexidx(po.expect_sect_align, fwpartfile, po.baseaddr, 0, po.expect_func_align, a2),
             LAMBDA r2 :
        LET s2 == Append(s1, scan("exidx", a2, r2, r2.match_count)) IN
        IF r2.raised THEN [err |-> "seek", po |-> po, scans |-> s2, warnings |-> <<>>]
        ELSE IF r2.pos >= 0
        THEN [err |-> "", scans |-> s2, warnings |-> warn(r2, a2), po |-> found(r2.pos, r2.len)]
        ELSE
        LET a3 == po.expect_sect_align IN
        Eval(armfw_detect_empty_sect_ARMexidx(fwpartfile, po.baseaddr, 0, po.expect_func_align, a3),
             LAMBDA r3 :
        LET s3 == Append(s2, scan("empty", a3, r3, 0)) IN
        IF r3.pos < 0 THEN [err |-> "No matches found for section", po |-> po, scans |-> s3, warnings |-> <<>>]
        ELSE [err |-> "", scans |-> s3, warnings |-> <<>>, po |-> found(r3.pos, r3.len)])))
    ELSE [err |-> "", scans |-> <<>>, warnings |-> <<>>, po |-> setsize(po, W(po.expect_sect_align))]

armfw_bin2elf_settle_sect_text(po, fwpartfile) ==
    LET sect_pos == wSub(po.section_addr.val[".ARM.exidx"], po.baseaddr)
        sectname == ".text"
        setsize(p) ==
            IF ~dict_has(p.section_size, sectname)
            THEN [p EXCEPT !.section_size = dict_set(p.section_size, sectname,
                                 wSub(sect_pos, wSub(p.section_addr.val[sectname], p.baseaddr)))]
            ELSE p
    IN
    IF ~dict_has(po.section_addr, sectname)
    THEN IF wGt(sect_pos, W(po.expect_func_align * 8))
         THEN [err |-> "",
               po |-> setsize([po EXCEPT !.section_addr = dict_set(po.section_addr, sectname, wAdd(po.baseaddr, W(0)))])]
         ELSE [err |-> "No place for section", po |-> po]
    ELSE [err |-> "", po |-> setsize(po)]

\* a faulty .data placement: the start is rounded up to the section alignment
armfw_bin2elf_settle_sect_data_realigned(po, fwpartfile) ==
    LET sect_pos0 == wSub(po.section_addr.val[".ARM.exidx"], po.baseaddr)
        sect_len0 == po.section_size.val[".ARM.exidx"]
        sectname  == ".data"
        after     == wAdd(sect_pos0, sect_len0)
        rounded   == wAdd(after, W((po.expect_sect_align - (after[2] % po.expect_sect_align))
                                    % po.expect_sect_align))
        p1 == IF ~dict_has(po.section_addr, sectname)
              THEN [po EXCEPT !.section_addr = dict_set(po.section_addr, sectname, wAdd(po.baseaddr, rounded))]
              ELSE po
        sect_pos == IF ~dict_has(po.section_addr, sectname) THEN rounded
                    ELSE wSub(po.section_addr.val[sectname], po.baseaddr)
    IN
    IF ~dict_has(p1.section_size, sectname)
    THEN [err |-> "",
          po |-> [p1 EXCEPT !.section_size = dict_set(p1.section_size, sectname, wSub(W(Len(fwpartfile)), sect_pos))]]
    ELSE [err |-> "", po |-> p1]

armfw_bin2elf_settle_sect_data(po, fwpartfile) ==
    LET sect_pos0 == wSub(po.section_addr.val[".ARM.exidx"], po.baseaddr)
        sect_len0 == po.section_size.val[".ARM.exidx"]
        sectname  == ".data"
        \* sect_align = 1: the rounding up of sect_pos never acts
        p1 == IF ~dict_has(po.section_addr, sectname)
              THEN [po EXCEPT !.section_addr =
                        dict_set(po.section_addr, sectname, wAdd(po.baseaddr, wAdd(sect_pos0, sect_len0)))]
              ELSE po
        sect_pos == IF ~dict_has(po.section_addr, sectname) THEN wAdd(sect_pos0, sect_len0)
                    ELSE wSub(po.section_addr.val[sectname], po.baseaddr)
    IN
    IF ~dict_has(p1.section_size, sectname)
    THEN [err |-> "",
          po |-> [p1 EXCEPT !.section_size = dict_set(p1.section_size, sectname, wSub(W(Len(fwpartfile)), sect_pos))]]
    ELSE [err |-> "", po |-> p1]

\* a faulty sibling loop: every sibling is put at the end of the primary .bss
RECURSIVE settle_more_bss_after_primary(_, _, _, _)
settle_more_bss_after_primary(po, i, sect_pos, sect_len) ==
    IF i > Len(po.section_size.keys) THEN po
    ELSE
    LET sectname == po.section_size.keys[i] IN
    IF ~IsBssN(sectname) THEN settle_more_bss_after_primary(po, i + 1, sect_pos, sect_len)
    ELSE
    Eval(IF ~dict_has(po.section_addr, sectname)
         THEN [po EXCEPT !.section_addr = dict_set(po.section_addr, sectname,
                                                   wAdd(po.baseaddr, wAdd(sect_pos, sect_len)))]
         ELSE po, LAMBDA p1 :
         settle_more_bss_after_primary(p1, i + 1, sect_pos, sect_len))

\* the loop over po.section_size.keys() for the .bssN sections, from key i on
RECURSIVE settle_more_bss(_, _, _, _)
settle_more_bss(po, i, sect_pos, sect_len) ==
    IF i > Len(po.section_size.keys) THEN po
    ELSE
    LET sectname == po.section_size.keys[i] IN
    IF ~IsBssN(sectname) THEN settle_more_bss(po, i + 1, sect_pos, sect_len)
    ELSE
    Eval(IF ~dict_has(po.section_addr, sectname) THEN wAdd(sect_pos, sect_len)
         ELSE wSub(po.section_addr.val[sectname], po.baseaddr), LAMBDA new_pos :
    Eval(IF ~dict_has(po.section_addr, sectname)
         THEN [po EXCEPT !.section_addr = dict_set(po.section_addr, sectname, wAdd(po.baseaddr, new_pos))]
         ELSE po, LAMBDA p1 :
    Eval(p1.section_size.val[sectname], LAMBDA new_len :
         settle_more_bss(p1, i + 1, new_pos, new_len))))

armfw_bin2elf_settle_sect_bss(po, fwpartfile) ==
    LET sect_pos0 == wSub(po.section_addr.val[".data"], po.baseaddr)
        sect_len0 == po.section_size.val[".data"]
        sectname  == ".bss"
        sect_pos  == IF ~dict_has(po.section_addr, sectname) THEN wAdd(sect_pos0, sect_len0)
                     ELSE wSub(po.section_addr.val[sectname], po.baseaddr)
        p1 == IF ~dict_has(po.section_addr, sectname)
              THEN [po EXCEPT !.section_addr = dict_set(po.section_addr, sectname, wAdd(po.baseaddr, sect_pos))]
              ELSE po
        len0 == wSub(p1.addrspacelen, sect_pos)
        sect_len == IF ~dict_has(p1.section_size, sectname)
                    THEN (IF wNeg(len0) THEN W(0) ELSE len0)
                    ELSE p1.section_size.val[sectname]
        p2 == IF ~dict_has(p1.section_size, sectname)
              THEN [p1 EXCEPT !.section_size = dict_set(p1.section_size, sectname, sect_len)]
              ELSE p1
    IN  Eval(p2, LAMBDA p : Eval(sect_pos, LAMBDA pos : Eval(sect_len, LAMBDA len :
            [err |-> "", po |-> settle_more_bss(p, 1, pos, len)])))

(***************************************************************************)
(* LayoutReconciler                                                        *)
(***************************************************************************)

\* sorted(set(po.section_addr.values()))
RECURSIVE sorted_addrs(_)
sorted_addrs(S) ==
    IF S = {} THEN <<>>
    ELSE Eval(CHOOSE x \in S : \A y \in S : wLe(x, y), LAMBDA mn :
         Eval(S \ {mn}, LAMBDA rest : <<mn>> \o sorted_addrs(rest)))

\* the sections of one address: those of size below 1 first, then the others,
\* each group in the order of po.section_addr
sections_at(po, sortaddr) ==
    LET at(k)    == po.section_addr.val[k] = sortaddr
        empty(k) == at(k) /\ dict_has(po.section_size, k) /\ wLt(po.section_size.val[k], W(1))
        other(k) == at(k) /\ ~empty(k)
    IN  SelectSeq(po.section_addr.keys, empty) \o SelectSeq(po.section_addr.keys, other)

RECURSIVE sections_order_from(_, _, _, _, _)
sections_order_from(po, addrs, i, addrspace_limit, acc) ==
    IF i > Len(addrs) THEN acc
    ELSE IF wGt(addrs[i], addrspace_limit)
    THEN [acc EXCEPT !.warnings = Append(@, [w |-> "beyond address space limit", addr |-> addrs[i]])]
    ELSE Eval([acc EXCEPT !.order = @ \o sections_at(po, addrs[i])], LAMBDA acc1 :
              sections_order_from(po, addrs, i + 1, addrspace_limit, acc1))

\* gives [order, warnings]
armfw_bin2elf_get_sections_order(po, addrspace_limit) ==
    Eval(sorted_addrs({po.section_addr.val[k] : k \in DOMAIN po.section_addr.val}), LAMBDA addrs :
         sections_order_from(po, addrs, 1, addrspace_limit, [order |-> <<>>, warnings |-> <<>>]))

\* a faulty size back-fill: the sizes are left as the settle functions gave them
armfw_bin2elf_update_sect_sizes_skipped(po, sections_order, addrspace_limit) ==
    [err |-> "", po |-> po, warnings |-> <<>>]

\* the loop of armfw_bin2elf_update_sect_sizes over reversed(sections_order),
\* at index i, with acc = [err, po, warnings]
RECURSIVE update_sect_sizes_from(_, _, _, _, _)
update_sect_sizes_from(acc, sections_order, i, sectaddr_next, addrspace_limit) ==
    IF i < 1 THEN acc
    ELSE
    LET po        == acc.po
        sectname  == sections_order[i]
        addr      == po.section_addr.val[sectname]
        delta0    == wSub(sectaddr_next, addr)
        top       == wSub(wAdd(addrspace_limit, W(1)), W(po.expect_sect_align))
        delta     == IF wGt(wAdd(addr, delta0), top) THEN wSub(top, addr) ELSE delta0
    IN
    IF wNeg(delta0) THEN [acc EXCEPT !.err = "negative distance"]
    ELSE IF wNeg(delta) THEN [acc EXCEPT !.err = "negative distance to address limit"]
    ELSE
    LET acc2 ==
          IF dict_has(po.section_size, sectname)
          THEN IF wGt(po.section_size.val[sectname], delta)
               THEN [acc EXCEPT !.po.section_size = dict_set(po.section_size, sectname, delta),
                                !.warnings = Append(@, [w |-> "size reduced", name |-> sectname, size |-> delta])]
               ELSE acc
          ELSE [acc EXCEPT !.po.section_size = dict_set(po.section_size, sectname, delta)]
    IN  Eval(acc2, LAMBDA acc3 : Eval(addr, LAMBDA next :
            update_sect_sizes_from(acc3, sections_order, i - 1, next, addrspace_limit)))

armfw_bin2elf_update_sect_sizes(po, sections_order, addrspace_limit) ==
    Eval(wAdd(wAdd(po.baseaddr, po.addrspacelen), W(1)), LAMBDA sectaddr_next :
         update_sect_sizes_from([err |-> "", po |-> po, warnings |-> <<>>], sections_order, Len(sections_order),
                                sectaddr_next, addrspace_limit))

\* while (n % sect_align) != 0: sect_align = (sect_align >> 1)
RECURSIVE halve_until_divides(_, _)
halve_until_divides(n, sect_align) ==
    IF wMod(n, sect_align) # 0 THEN halve_until_divides(n, sect_align \div 2) ELSE sect_align

\* a faulty alignment inference: the section sizes are not looked at
armfw_bin2elf_get_sections_align_addr_only(po, sections_order) ==
    [i \in 1..Len(sections_order) |->
        halve_until_divides(po.section_addr.val[sections_order[i]], po.expect_sect_align * 2)]

armfw_bin2elf_get_sections_align(po, sections_order) ==
    [i \in 1..Len(sections_order) |->
        LET sectname == sections_order[i] IN
        halve_until_divides(po.section_size.val[sectname],
            halve_until_divides(po.section_addr.val[sectname], po.expect_sect_align * 2))]

armfw_bin2elf_get_sections_pos(po, sections_order) ==
    [i \in 1..Len(sections_order) |->
        LET sect_pos == wSub(po.section_addr.val[sections_order[i]], po.baseaddr)
        IN  IF wNeg(sect_pos) THEN W(0) ELSE sect_pos]

(***************************************************************************)
(* ContainerBuilder.  The ELF object is the sequence of its section        *)
(* descriptors [name, sh_type, sh_addr, sh_addralign, sh_size, data_pos,   *)
(* data_len]: the payload of a section is the data_len bytes of the image  *)
(* from data_pos on.                                                       *)
(***************************************************************************)

\* elfobj.get_section_by_name(name): its index, 0 when there is none
get_section_index(sections, name) ==
    IF \E i \in 1..Len(sections) : sections[i].name = name
    THEN CHOOSE i \in 1..Len(sections) :
            sections[i].name = name /\ \A j \in 1..(i - 1) : sections[j].name # name
    ELSE 0

\* elfobj.insert_section_after(prev, sect)
insert_section_after(sections, prev, sect) ==
    LET i == get_section_index(sections, prev)
    IN  SubSeq(sections, 1, i) \o <<sect>> \o SubSeq(sections, i + 1, Len(sections))

\* one pass of the loop of armfw_bin2elf_update_elffile, for sections_order[k]
update_elffile_section(po, fwpartfile, sections, sectname, sect_pos, sect_align) ==
    LET i0 == get_section_index(sections, sectname)
        m  == NumSuffix(sectname)
    IN
    IF i0 = 0 /\ m = <<>> THEN [err |-> "AttributeError", sections |-> sections]
    ELSE
    LET ib == IF i0 = 0 THEN get_section_index(sections, m[1].name) ELSE 0 IN
    IF i0 = 0 /\ ib = 0 THEN [err |-> "Could not read section", sections |-> sections]
    ELSE
    LET secs1 ==
            IF i0 # 0 THEN sections
            ELSE LET sectname_prev0 == NameNum(m[1].name, m[1].num - 1)
                     sectname_prev  == IF get_section_index(sections, sectname_prev0) = 0
                                       THEN m[1].name ELSE sectname_prev0
                 IN  insert_section_after(sections, sectname_prev, [sections[ib] EXCEPT !.name = sectname])
        i    == get_section_index(secs1, sectname)
        sect == [secs1[i] EXCEPT !.sh_addr = po.section_addr.val[sectname], !.sh_addralign = sect_align]
        size == po.section_size.val[sectname]
    IN
    IF sect.sh_type = "SHT_NOBITS"
    THEN [err |-> "", sections |-> [secs1 EXCEPT ![i] = [sect EXCEPT !.sh_size = size]]]
    ELSE IF wLe(size, W(0))
    THEN [err |-> "", sections |-> [secs1 EXCEPT ![i] = [sect EXCEPT !.sh_size = W(0), !.data_pos = 0, !.data_len = 0]]]
    ELSE
    LET data_buf == IF ~wIsSmall(sect_pos) THEN <<>>
                    ELSE file_read(fwpartfile, wSmall(sect_pos),
                                   IF wIsSmall(size) THEN wSmall(size) ELSE Len(fwpartfile))
    IN
    IF Len(data_buf) = 0 THEN [err |-> "Couldn't read section", sections |-> sections]
    ELSE [err |-> "",
          sections |-> [secs1 EXCEPT ![i] = [sect EXCEPT !.sh_size = W(Len(data_buf)),
                                                         !.data_pos = wSmall(sect_pos),
                                                         !.data_len = Len(data_buf)]]]

RECURSIVE update_elffile_from(_, _, _, _, _, _, _)
update_elffile_from(po, fwpartfile, sections, sections_order, sections_pos, sections_align, k) ==
    IF k > Len(sections_order) THEN [err |-> "", sections |-> sections]
    ELSE Eval(update_elffile_section(po, fwpartfile, sections, sections_order[k],
                                     sections_pos[k], sections_align[k]), LAMBDA r :
             IF r.err # "" THEN r
             ELSE update_elffile_from(po, fwpartfile, r.sections, sections_order, sections_pos, sections_align, k + 1))

\* gives [err, elfobj, written]: the patched object, and whether
\* elfobj.write_changes() was called
armfw_bin2elf_update_elffile(po, elf_sections, fwpartfile, sections_order, sections_pos, sections_align) ==
    Eval(update_elffile_from(po, fwpartfile, elf_sections, sections_order, sections_pos, sections_align, 1),
         LAMBDA r :
        IF r.err # "" THEN [err |-> r.err, elfobj |-> [e_entry |-> po.baseaddr, sections |-> r.sections], written |-> FALSE]
        ELSE [err |-> "", elfobj |-> [e_entry |-> po.baseaddr, sections |-> r.sections],
              written |-> ~po.dry_run])

\* a faulty copy_template: the destination is written in a dry run too
armfw_bin2elf_copy_template_always(po, tmplt) ==
    IF ~tmplt.exists THEN [err |-> "FileNotFoundError", opened_wb |-> FALSE, copied |-> FALSE]
    ELSE [err |-> "", opened_wb |-> TRUE, copied |-> TRUE]

\* gives [err, opened_wb, copied]: whether the destination was opened "wb"
\* and the template's content written to it
armfw_bin2elf_copy_template(po, tmplt) ==
    IF ~tmplt.exists THEN [err |-> "FileNotFoundError", opened_wb |-> FALSE, copied |-> FALSE]
    ELSE [err |-> "", opened_wb |-> ~po.dry_run, copied |-> ~po.dry_run]

(***************************************************************************)
(* The program as a state machine: main() and armfw_bin2elf(), one action  *)
(* per function called.                                                    *)
(***************************************************************************)

VARIABLES
    pc,              \* the next step of main() / armfw_bin2elf(), "done" or "failed"
    po,              \* the options object
    fwpartfile,      \* the content of the image file
    tmplt,           \* the template file: [exists, sections]
    elffile,         \* the destination file: [exists, kind, e_entry, sections]
    fsops,           \* the file operations done so far
    scans,           \* the scanner calls made by settle_sect_ARMexidx, with their results
    sections_order,
    sections_align,
    sections_pos,
    elfobj,          \* the ELF object in memory: [loaded, e_entry, sections]
    warnings,        \* what eprint() wrote
    error,           \* the exception that ended the run, "" when none
    call             \* the specifications of the pure functions: the arguments and the result

vars == <<pc, po, fwpartfile, tmplt, elffile, fsops, scans, sections_order, sections_align,
          sections_pos, elfobj, warnings, error, call>>

\* main(): po.expect_func_align, po.expect_sect_align
ExpectFuncAlign == 2
ExpectSectAlign == 16

NoCall == [fn |-> "", args |-> <<>>, out |-> <<>>]
NoElfObj == [loaded |-> FALSE, e_entry |-> Zero, sections |-> <<>>]

fail(e) ==
    /\ pc' = "failed"
    /\ error' = e

Main ==
    /\ pc = "main"
    /\ \E r \in {main_options(po)} :
       /\ po' = r.po
       /\ IF r.err # "" THEN fail(r.err)
          ELSE pc' = "settle_sect_ARMexidx" /\ error' = error
    /\ UNCHANGED <<fwpartfile, tmplt, elffile, fsops, scans, sections_order, sections_align,
                   sections_pos, elfobj, warnings, call>>

SettleSectARMexidx ==
    /\ pc = "settle_sect_ARMexidx"
    /\ \E r \in {armfw_bin2elf_settle_sect_ARMexidx(po, fwpartfile)} :
       /\ scans' = r.scans
       /\ warnings' = warnings \o r.warnings
       /\ po' = r.po
       /\ IF r.err # "" THEN fail(r.err)
          ELSE pc' = "settle_sect_text" /\ error' = error
    /\ UNCHANGED <<fwpartfile, tmplt, elffile, fsops, sections_order, sections_align,
                   sections_pos, elfobj, call>>

SettleSectText ==
    /\ pc = "settle_sect_text"
    /\ \E r \in {armfw_bin2elf_settle_sect_text(po, fwpartfile)} :
       /\ po' = r.po
       /\ IF r.err # "" THEN fail(r.err)
          ELSE pc' = "settle_sect_data" /\ error' = error
    /\ UNCHANGED <<fwpartfile, tmplt, elffile, fsops, scans, sections_order, sections_align,
                   sections_pos, elfobj, warnings, call>>

SettleSectData ==
    /\ pc = "settle_sect_data"
    /\ po' = armfw_bin2elf_settle_sect_data(po, fwpartfile).po
    /\ pc' = "settle_sect_bss"
    /\ UNCHANGED <<fwpartfile, tmplt, elffile, fsops, scans, sections_order, sections_align,
                   sections_pos, elfobj, warnings, error, call>>

SettleSectBss ==
    /\ pc = "settle_sect_bss"
    /\ po' = armfw_bin2elf_settle_sect_bss(po, fwpartfile).po
    /\ pc' = "get_sections_order"
    /\ UNCHANGED <<fwpartfile, tmplt, elffile, fsops, scans, sections_order, sections_align,
                   sections_pos, elfobj, warnings, error, call>>

GetSectionsOrder ==
    /\ pc = "get_sections_order"
    /\ \E r \in {armfw_bin2elf_get_sections_order(po, AddrspaceLimit)} :
       /\ sections_order' = r.order
       /\ warnings' = warnings \o r.warnings
    /\ pc' = "update_sect_sizes"
    /\ UNCHANGED <<po, fwpartfile, tmplt, elffile, fsops, scans, sections_align,
                   sections_pos, elfobj, error, call>>

UpdateSectSizes ==
    /\ pc = "update_sect_sizes"
    /\ \E r \in {armfw_bin2elf_update_sect_sizes(po, sections_order, AddrspaceLimit)} :
       /\ po' = r.po
       /\ warnings' = warnings \o r.warnings
       /\ IF r.err # "" THEN fail(r.err)
          ELSE pc' = "get_sections_align" /\ error' = error
    /\ UNCHANGED <<fwpartfile, tmplt, elffile, fsops, scans, sections_order, sections_align,
                   sections_pos, elfobj, call>>

GetSectionsAlign ==
    /\ pc = "get_sections_align"
    /\ sections_align' = armfw_bin2elf_get_sections_align(po, sections_order)
    /\ pc' = "get_sections_pos"
    /\ UNCHANGED <<po, fwpartfile, tmplt, elffile, fsops, scans, sections_order,
                   sections_pos, elfobj, warnings, error, call>>

GetSectionsPos ==
    /\ pc = "get_sections_pos"
    /\ sections_pos' = armfw_bin2elf_get_sections_pos(po, sections_order)
    /\ pc' = "copy_template"
    /\ UNCHANGED <<po, fwpartfile, tmplt, elffile, fsops, scans, sections_order,
                   sections_align, elfobj, warnings, error, call>>

CopyTemplate ==
    /\ pc = "copy_template"
    /\ \E r \in {armfw_bin2elf_copy_template(po, tmplt)} :
       /\ fsops' = fsops \cup {"open tmplt rb"}
                         \cup (IF r.opened_wb THEN {"open elffile wb"} ELSE {})
                         \cup (IF r.copied THEN {"write elffile"} ELSE {})
       /\ elffile' = IF r.copied
                     THEN [exists |-> TRUE, kind |-> "template", e_entry |-> Zero, sections |-> tmplt.sections]
                     ELSE elffile
       /\ IF r.err # "" THEN fail(r.err)
          ELSE pc' = "update_elffile" /\ error' = error
    /\ UNCHANGED <<po, fwpartfile, tmplt, scans, sections_order, sections_align,
                   sections_pos, elfobj, warnings, call>>

\* the end of armfw_bin2elf(): the file to patch is opened (the destination
\* "r+b", or the template "rb" in a dry run), patched and closed
UpdateElffile ==
    /\ pc = "update_elffile"
    /\ \E r \in {armfw_bin2elf_update_elffile(po, IF ~po.dry_run THEN elffile.sections ELSE tmplt.sections,
                                                fwpartfile, sections_order, sections_pos, sections_align)} :
       /\ elfobj' = [loaded |-> TRUE, e_entry |-> r.elfobj.e_entry, sections |-> r.elfobj.sections]
       /\ fsops' = fsops \cup (IF ~po.dry_run THEN {"open elffile r+b"} ELSE {"open tmplt rb"})
                         \cup (IF r.written THEN {"write_changes elffile"} ELSE {})
       /\ elffile' = IF r.written
                     THEN [exists |-> TRUE, kind |-> "written", e_entry |-> r.elfobj.e_entry,
                           sections |-> r.elfobj.sections]
                     ELSE elffile
       /\ IF r.err # "" THEN fail(r.err)
          ELSE pc' = "done" /\ error' = error
    /\ UNCHANGED <<po, fwpartfile, tmplt, scans, sections_order, sections_align,
                   sections_pos, warnings, call>>

Next ==
    \/ Main
    \/ SettleSectARMexidx
    \/ SettleSectText
    \/ SettleSectData
    \/ SettleSectBss
    \/ GetSectionsOrder
    \/ UpdateSectSizes
    \/ GetSectionsAlign
    \/ GetSectionsPos
    \/ CopyTemplate
    \/ UpdateElffile

(***************************************************************************)
(* The inputs: images, options, templates.                                 *)
(***************************************************************************)

\* the bounds of the inputs
MaxPreWin == 2     \* section-sized windows of filler before the records of an image
MaxBody == 4       \* 8-byte slots in the middle of an image
MaxTail == 2       \* 8-byte slots of filler at the end of an image
MaxParams == 2     \* --section parameters on the command line

\* argparse defaults of --baseaddr (0x1000000) and --addrspacelen (0x2000000)
DefaultBase == <<256, 0>>
DefaultSpaceLen == <<512, 0>>

le_bytes(w) == <<w[2] % 256, w[2] \div 256, w[1] % 256, w[1] \div 256>>
Fill(b, n) == [i \in 1..n |-> b]

\* the prel31 field stored at image position place that points at position target
prel31_field(target, place) == LET d == W(target - place) IN <<d[1] % 32768, d[2]>>

\* an index entry at position pos for a function at position target
IndexEntry(pos, target, entry) == le_bytes(prel31_field(target, pos)) \o le_bytes(entry)

\* the 8 bytes of a slot at position pos: zeros, 0x01 bytes, 0xff bytes, an
\* EXIDX_CANTUNWIND entry for the function at position 2, or an entry for
\* that function whose second word points at a table entry 20 bytes before
\* the entry
Slot(kind, pos) ==
    CASE kind = "Z" -> Fill(0, 8)
      [] kind = "N" -> Fill(1, 8)
      [] kind = "F" -> Fill(255, 8)
      [] kind = "R" -> IndexEntry(pos, 2, W(1))
      [] kind = "T" -> IndexEntry(pos, 2, prel31_field(pos - 20, pos))

\* the image made of the slots of the given kinds, from position 0
Slots(kinds) ==
    Eval(kinds, LAMBDA ks :
         [i \in 1..(8 * Len(ks)) |-> Slot(ks[((i - 1) \div 8) + 1], 8 * ((i - 1) \div 8))[((i - 1) % 8) + 1]])

SeqsUpTo(S, n) == UNION {[1..k -> S] : k \in 0..n}

FillKinds == {"Z", "N"}
BodyKinds == {"R", "Z", "N"}

\* filler windows, a body of slots, filler slots, and 0 or 3 more zero bytes
ScanImages ==
    {Slots(Fill(pf, 2 * pw) \o body \o Fill(tf, t)) \o Fill(0, x) :
        pf \in FillKinds, pw \in 0..MaxPreWin, body \in SeqsUpTo(BodyKinds, MaxBody),
        tf \in FillKinds, t \in 0..MaxTail, x \in {0, 3}}

\* 32 bytes of code, one index entry and its padding, 16 bytes of data
GoodImage == Slots(<<"N", "N", "N", "N", "R", "Z", "N", "N">>)

FullTemplate ==
    [exists |-> TRUE,
     sections |-> [i \in 1..4 |->
        [name |-> <<".text", ".ARM.exidx", ".data", ".bss">>[i],
         sh_type |-> <<"SHT_PROGBITS", "SHT_ARM_EXIDX", "SHT_PROGBITS", "SHT_NOBITS">>[i],
         sh_addr |-> Zero, sh_addralign |-> 1, sh_size |-> Zero, data_pos |-> 0, data_len |-> 0]]]
NoExidxTemplate == [FullTemplate EXCEPT !.sections = SelectSeq(FullTemplate.sections, LAMBDA x : x.name # ".ARM.exidx")]
MissingTemplate == [exists |-> FALSE, sections |-> <<>>]

NoFile == [exists |-> FALSE, kind |-> "none", e_entry |-> Zero, sections |-> <<>>]
OldFile == [exists |-> TRUE, kind |-> "old", e_entry |-> Zero, sections |-> <<>>]

Param(name, addr, len) == [name |-> name, addr |-> addr, len |-> len]
At(off) == <<wAdd(DefaultBase, W(off))>>
Sz(n) == <<W(n)>>
None == <<>>

ParamPool ==
    { Param(".ARM.exidx", At(32), None), Param(".ARM.exidx", At(48), Sz(16)),
      Param(".ARM.exidx", None, Sz(32)), Param(".ARM.exidx", At(8), None),
      Param(".text", At(64), None), Param(".text", At(16), None),
      Param(".text", None, Sz(256)), Param(".text", <<W(256)>>, Sz(16)),
      Param(".data", At(256), None), Param(".data", At(48), None),
      Param(".data", None, Sz(4096)), Param(".data", At(256), Sz(16)),
      Param(".bss", At(4096), Sz(256)), Param(".bss", None, Sz(0)), Param(".bss", At(40), None),
      Param(".bss2", None, Sz(256)), Param(".bss3", None, Sz(128)),
      Param(".bss2", At(8192), None), Param(".bss3", At(12288), Sz(16)),
      Param(".bss2", At(40), Sz(0)),
      Param(".bss2", <<<<65535, 65528>>>>, Sz(4)), Param(".bss3", <<<<65535, 65520>>>>, Sz(16)),
      Param(".stack", At(20480), Sz(16)), Param(".ram2", At(24576), Sz(16)) }

MkInput(file, base, spacelen, section, dry, t, e) ==
    [file |-> file, baseaddr |-> base, addrspacelen |-> spacelen, section |-> section,
     dry_run |-> dry, tmplt |-> t, elffile |-> e]

ScanInputs ==
    {MkInput(f, DefaultBase, DefaultSpaceLen, <<>>, TRUE, FullTemplate, NoFile) : f \in ScanImages}

OverrideInputs ==
    {MkInput(GoodImage, DefaultBase, DefaultSpaceLen, sec, FALSE, FullTemplate, NoFile) :
        sec \in SeqsUpTo(ParamPool, MaxParams)}

BuilderInputs ==
    {MkInput(GoodImage, DefaultBase, DefaultSpaceLen, sec, dry, t, e) :
        sec \in {<<>>, <<Param(".data", None, Sz(4096))>>, <<Param(".data", At(256), Sz(16))>>,
                 <<Param(".stack", At(20480), Sz(16))>>, <<Param(".ram2", At(24576), Sz(16))>>,
                 <<Param(".bss2", None, Sz(256))>>, <<Param(".bss3", None, Sz(128)), Param(".bss2", None, Sz(256))>>},
        dry \in BOOLEAN, t \in {FullTemplate, NoExidxTemplate, MissingTemplate}, e \in {NoFile, OldFile}}

SpaceInputs ==
    {MkInput(f, base, len, <<>>, TRUE, FullTemplate, NoFile) :
        f \in {GoodImage, Slots(<<"Z", "Z", "Z", "Z", "N", "N">>)},
        base \in {Zero, DefaultBase, <<65535, 65280>>, <<65535, 65472>>, <<65535, 65456>>},
        len \in {W(0), W(32), W(63), W(64), W(80), W(240), W(256), DefaultSpaceLen,
                <<65279, 65520>>, <<65535, 65535>>}}

\* two sections at one address past the end of the image: .data with no
\* size given and an empty one (a third, higher section has the size that
\* main() asks of the last section), or an empty and a non-empty one
SharedAddrInputs ==
    {MkInput(GoodImage, DefaultBase, DefaultSpaceLen, sec, TRUE, FullTemplate, NoFile) :
        sec \in {<<Param(".data", At(256), None), Param(".bss2", At(256), Sz(0)),
                   Param(".bss3", At(12288), Sz(16))>>,
                 <<Param(".bss2", At(256), Sz(0)), Param(".data", At(256), None)>>,
                 <<Param(".stack", At(256), Sz(0)), Param(".ram2", At(256), Sz(16))>>,
                 <<Param(".ram2", At(256), Sz(16)), Param(".stack", At(256), Sz(0))>>}}

\* images with an index entry whose table entry lies before the start of the
\* image: at position 16, and at position 8 (met by the scan at alignment 8)
TableInputs ==
    {MkInput(f, DefaultBase, DefaultSpaceLen, <<>>, TRUE, FullTemplate, NoFile) :
        f \in {Slots(<<"N", "N", "T", "Z", "N", "N">>), Slots(<<"N", "T", "Z", "Z", "N", "N">>),
                Slots(<<"N", "N", "N", "N", "T", "Z", "N", "N">>)}}

\* the image of 0x2000 bytes of the end-to-end scenario: 4 index entries at
\* 0x1000, 16 zero bytes after them, the filler byte everywhere else
ScenarioImage(filler) ==
    [i \in 1..8192 |->
        LET pos == i - 1 IN
        IF pos >= 4096 /\ pos < 4128
        THEN IndexEntry(pos - (pos % 8), 256 + 64 * ((pos - 4096) \div 8), W(1))[(pos % 8) + 1]
        ELSE IF pos >= 4128 /\ pos < 4144 THEN 0
        ELSE filler]

ScenarioInputs ==
    {MkInput(ScenarioImage(filler), DefaultBase, len, <<>>, dry, FullTemplate, NoFile) :
        filler \in {0, 255}, len \in {W(8192), DefaultSpaceLen}, dry \in BOOLEAN}

Inputs == ScanInputs \cup OverrideInputs \cup BuilderInputs \cup SpaceInputs \cup ScenarioInputs \cup TableInputs
          \cup SharedAddrInputs

Init ==
    \E in \in Inputs :
        /\ pc = "main"
        /\ po = [fwpartfile_name |-> "fw", baseaddr |-> in.baseaddr, addrspacelen |-> in.addrspacelen,
                 section |-> in.section, section_addr |-> EmptyDict, section_size |-> EmptyDict,
                 dry_run |-> in.dry_run,
                 expect_func_align |-> ExpectFuncAlign, expect_sect_align |-> ExpectSectAlign]
        /\ fwpartfile = in.file
        /\ tmplt = in.tmplt
        /\ elffile = in.elffile
        /\ fsops = {}
        /\ scans = <<>>
        /\ sections_order = <<>>
        /\ sections_align = <<>>
        /\ sections_pos = <<>>
        /\ elfobj = NoElfObj
        /\ warnings = <<>>
        /\ error = ""
        /\ call = NoCall

Spec == Init /\ [][Next]_vars

(***************************************************************************)
(* The pure functions on their own: prel31_to_addr, and the entry          *)
(* validator, applied to arguments drawn from bounded sets.                *)
(***************************************************************************)

MathDelta == 2     \* how far around each boundary value the arguments go

Hex40000000 == <<16384, 0>>
HexC0000000 == <<49152, 0>>
Hex100000000 == <<65536, 0>>

Around(S) == {wAdd(a, W(d)) : a \in S, d \in (-MathDelta)..MathDelta}
U32(S) == {x \in S : wGe(x, Zero) /\ wLt(x, Hex100000000)}

\* 32-bit fields with bit 31 clear, and 32-bit references
MathFields == {x \in U32(Around({Zero, Hex40000000, Hex80000000})) : wLt(x, Hex80000000)}
MathRefs == U32(Around({Zero, Hex40000000, Hex80000000, HexC0000000, Hex100000000, DefaultBase}))

IdleProgram ==
    /\ po = [fwpartfile_name |-> "", baseaddr |-> Zero, addrspacelen |-> Zero,
             section |-> <<>>, section_addr |-> EmptyDict, section_size |-> EmptyDict,
             dry_run |-> TRUE,
             expect_func_align |-> ExpectFuncAlign, expect_sect_align |-> ExpectSectAlign]
    /\ fwpartfile = <<>>
    /\ tmplt = MissingTemplate
    /\ elffile = NoFile
    /\ fsops = {}
    /\ scans = <<>>
    /\ sections_order = <<>>
    /\ sections_align = <<>>
    /\ sections_pos = <<>>
    /\ elfobj = NoElfObj
    /\ warnings = <<>>
    /\ error = ""

InitMath ==
    /\ IdleProgram
    /\ pc = "call"
    /\ \E ptr \in MathFields, refptr \in MathRefs :
          call = [fn |-> "prel31_to_addr", args |-> [ptr |-> ptr, refptr |-> refptr], out |-> <<>>]

CallPrel31ToAddr ==
    /\ pc = "call"
    /\ call.fn = "prel31_to_addr"
    /\ call' = [call EXCEPT !.out = <<prel31_to_addr(call.args.ptr, call.args.refptr)>>]
    /\ pc' = "returned"
    /\ UNCHANGED <<po, fwpartfile, tmplt, elffile, fsops, scans, sections_order, sections_align,
                   sections_pos, elfobj, warnings, error>>

NextMath == CallPrel31ToAddr

SpecMath == InitMath /\ [][NextMath]_vars

\* candidate records: the first word points at the image positions
\* EntryTargets from the record's own position, or is 0, or has bit 31 set
EntryTargets == {0, 2, 3, 4, 14, 16, 18, 30, 32, 34}
EntryWords == {W(0), W(1), W(2), Hex80000000, <<32944, 45232>>, <<36864, 0>>, W(8), W(16), <<32767, 65532>>}
EntryBases == {Zero, DefaultBase, <<65535, 65280>>}
EntryFiles == {GoodImage, Fill(0, 64), Slots(<<"R", "R", "N", "N">>)}

InitEntry ==
    /\ IdleProgram
    /\ pc = "call"
    /\ \E f \in EntryFiles, base \in EntryBases, arr_pos \in {0, 16, 32}, d \in {0, 8},
          entry \in EntryWords :
       \E tboffs \in {prel31_field(t, arr_pos + d) : t \in EntryTargets} \cup {Zero, <<32768, 2>>, W(2)} :
          call = [fn |-> "armfw_is_proper_ARMexidx_entry",
                  args |-> [fwpartfile |-> f, eexidx |-> [tboffs |-> tboffs, entry |-> entry],
                            memaddr_base |-> base, func_align |-> ExpectFuncAlign,
                            arr_pos |-> arr_pos, ent_pos |-> arr_pos + d],
                  out |-> <<>>]

CallEntryValidator ==
    /\ pc = "call"
    /\ call.fn = "armfw_is_proper_ARMexidx_entry"
    /\ call' = [call EXCEPT !.out =
                   <<armfw_is_proper_ARMexidx_entry(ExpectSectAlign, call.args.fwpartfile, call.args.eexidx,
                                                    call.args.memaddr_base, call.args.func_align,
                                                    call.args.arr_pos, call.args.ent_pos)>>]
    /\ pc' = "returned"
    /\ UNCHANGED <<po, fwpartfile, tmplt, elffile, fsops, scans, sections_order, sections_align,
                   sections_pos, elfobj, warnings, error>>

NextEntry == CallEntryValidator

SpecEntry == InitEntry /\ [][NextEntry]_vars

(***************************************************************************)
(* The scanner claims.  A record is read off the image as the scanner      *)
(* reads it; what it resolves to is stated from the prel31 definition      *)
(* (the low 31 bits as a two's complement offset from the record's own     *)
(* address, modulo 2^32).                                                  *)
(***************************************************************************)

RecordAt(p) == ExIdxEntry(file_read(fwpartfile, p, 8))

Prel31Offset(field) == IF wLt(field, Hex40000000) THEN field ELSE wSub(field, Hex80000000)

Mod32(n) ==
    IF wGe(n, Hex100000000) THEN wSub(n, Hex100000000)
    ELSE IF wLt(n, Zero) THEN wAdd(n, Hex100000000)
    ELSE n

ResolvedAddr(field, place) == Mod32(wAdd(place, Prel31Offset(field)))

\* the record at position p takes the sentinel path and points at a
\* function start strictly between the base and base + limit
WellFormedAt(p, limit) ==
    /\ p + 8 <= Len(fwpartfile)
    /\ LET e == RecordAt(p)
           t == ResolvedAddr(e.tboffs, wAdd(po.baseaddr, W(p)))
       IN  /\ e.entry = W(1)
           /\ e.tboffs # Zero
           /\ wLt(e.tboffs, Hex80000000)
           /\ wGt(t, po.baseaddr)
           /\ wLt(t, wAdd(po.baseaddr, W(limit)))
           /\ t[2] % po.expect_func_align = 0

\* the number of consecutive well-formed records from position p on
RECURSIVE RunLength(_, _)
RunLength(p, limit) == IF WellFormedAt(p, limit) THEN 1 + RunLength(p + 8, limit) ELSE 0

\* the bytes from position e up to the next section boundary are there and zero
ZeroPaddingFrom(e) ==
    \A i \in e..(e + ((ExpectSectAlign - (e % ExpectSectAlign)) % ExpectSectAlign) - 1) :
        i < Len(fwpartfile) /\ fwpartfile[i + 1] = 0

CandidatePositions == {ExpectSectAlign * k : k \in 0..(Len(fwpartfile) \div ExpectSectAlign)}

\* the first scanner call of the run has been made: the record scan at the
\* expected section alignment, from position 0
RecordScanDone == Len(scans) > 0 /\ scans[1].kind = "exidx" /\ scans[1].align = ExpectSectAlign

NoOtherRun(P, N) ==
    \A q \in CandidatePositions :
        (q + 8 <= Len(fwpartfile) /\ (q < P \/ q >= P + 8 * N))
        => armfw_is_proper_ARMexidx_entry(po.expect_sect_align, fwpartfile, RecordAt(q), po.baseaddr,
                                          po.expect_func_align, q, q) = "reject"

\* N >= 1 well-formed records start at the section-aligned position P > 0,
\* pointing into the code before P; zero padding and at least 8 more bytes
\* follow them; no other run
RunAt(P, N) ==
    /\ P > 0
    /\ N >= 1
    /\ N = RunLength(P, P)
    /\ P + 8 * N + 8 <= Len(fwpartfile)
    /\ ZeroPaddingFrom(P + 8 * N)
    /\ NoOtherRun(P, N)

IsScenario ==
    /\ Len(fwpartfile) = 8192
    /\ fwpartfile \in {ScenarioImage(0), ScenarioImage(255)}
    /\ po.baseaddr = DefaultBase
    /\ po.section = <<>>
    /\ wGe(po.addrspacelen, W(8192))

SectionIs(name, off, size) ==
    /\ dict_has(po.section_addr, name) /\ dict_has(po.section_size, name)
    /\ po.section_addr.val[name] = wAdd(po.baseaddr, W(off))
    /\ po.section_size.val[name] = size

\* C2: in the end-to-end scenario the resolved layout is .text 0x1000 bytes
\* at the base, .ARM.exidx 0x20 bytes at base + 0x1000, .data from
\* base + 0x1020 to base + 0x2000, .bss at base + 0x2000 with the rest of the
\* address space.
C2_ScenarioLayout ==
    (pc = "done" /\ IsScenario) =>
        /\ SectionIs(".text", 0, W(4096))
        /\ SectionIs(".ARM.exidx", 4096, W(32))
        /\ SectionIs(".data", 4128, W(4064))
        /\ SectionIs(".bss", 8192, wSub(po.addrspacelen, W(8192)))

\* what the run gives in the scenario
C2_Observed ==
    /\ pc = "done" /\ IsScenario
    /\ SectionIs(".text", 0, W(4112))
    /\ SectionIs(".ARM.exidx", 4112, W(16))
    /\ SectionIs(".data", 4128, W(4064))
    /\ SectionIs(".bss", 8192, wSub(po.addrspacelen, W(8192)))

(***************************************************************************)
(* The layout claims                                                       *)
(***************************************************************************)

SectAddr(name) == po.section_addr.val[name]
SectSize(name) == po.section_size.val[name]

GapAfter(i) == wSub(SectAddr(sections_order[i + 1]), SectAddr(sections_order[i]))

SizeReducedWarning(name, size) ==
    \E j \in (Len(warnings) + 1)..Len(warnings') :
        warnings'[j] = [w |-> "size reduced", name |-> name, size |-> size]

\* C4: a size back-fill pass that completes leaves address + size of each
\* section <= the address of the next one in the order; a section whose
\* size before the pass exceeded the gap to the next one has exactly the
\* gap as its size and a warning was written for it; a section without a
\* size before the pass has exactly the gap.
C4_BackFill ==
    [][(pc = "update_sect_sizes" /\ pc' = "get_sections_align") =>
        \A i \in 1..(Len(sections_order) - 1) :
            LET name == sections_order[i] IN
            /\ dict_has(po'.section_size, name)
            /\ wLe(wAdd(SectAddr(name), po'.section_size.val[name]), SectAddr(sections_order[i + 1]))
            /\ (dict_has(po.section_size, name) /\ wGt(SectSize(name), GapAfter(i)))
                  => (po'.section_size.val[name] = GapAfter(i) /\ SizeReducedWarning(name, GapAfter(i)))
            /\ ~dict_has(po.section_size, name) => po'.section_size.val[name] = GapAfter(i)
      ]_vars

\* the pass has reduced the size of one section and given a size to another
C4_Witness ==
    /\ pc = "get_sections_align"
    /\ \E j \in 1..Len(warnings) : warnings[j].w = "size reduced"
    /\ \E i \in 1..(Len(sections_order) - 1) :
          /\ \A k \in 1..Len(po.section) : po.section[k].name = sections_order[i] => po.section[k].len = <<>>
          /\ sections_order[i] \in {".bss2", ".bss3"}
          /\ SectSize(sections_order[i]) = GapAfter(i)

(***************************************************************************)
(* The empty-region scanner                                                *)
(***************************************************************************)

Windows == 0..((Len(fwpartfile) \div ExpectSectAlign) - 1)
ZeroWindow(k) == \A i \in (ExpectSectAlign * k + 1)..(ExpectSectAlign * (k + 1)) : fwpartfile[i] = 0
FirstZeroWindow == CHOOSE k \in Windows : ZeroWindow(k) /\ \A j \in 0..(k - 1) : ~ZeroWindow(j)
\* the last window of the run of zero windows that starts at window k
RunEnd(k) == CHOOSE e \in Windows :
                /\ e >= k
                /\ \A j \in k..e : ZeroWindow(j)
                /\ (e + 1) \in Windows => ~ZeroWindow(e + 1)

EmptyScans == {i \in 1..Len(scans) : scans[i].kind = "empty"}

\* C7: the empty-region scan returns length 0 and the end of the last
\* window of the first run of all-zero windows; on an all-zero buffer of at
\* least 3 windows that is the end of the leading zero run; with no all-zero
\* window it returns not-found and the conversion fails.
C7_EmptyScan ==
    \A i \in EmptyScans :
        /\ scans[i].len = 0
        /\ IF \E k \in Windows : ZeroWindow(k)
           THEN /\ scans[i].pos = ExpectSectAlign * (RunEnd(FirstZeroWindow) + 1)
                /\ (Cardinality(Windows) >= 3 /\ \A k \in Windows : ZeroWindow(k))
                      => scans[i].pos = ExpectSectAlign * Cardinality(Windows)
           ELSE /\ scans[i].pos = -1
                /\ pc = "failed"
                /\ error = "No matches found for section"

\* an empty-region scan of an image with two separate runs of zero windows
C7_Witness ==
    /\ EmptyScans # {}
    /\ \E a, b, c \in Windows :
          /\ a < b /\ b < c
          /\ ZeroWindow(a) /\ ~ZeroWindow(b) /\ ZeroWindow(c)
          /\ \A i \in EmptyScans : scans[i].pos = ExpectSectAlign * (RunEnd(FirstZeroWindow) + 1)

(***************************************************************************)
(* The file system                                                         *)
(***************************************************************************)

WriteOps == {"open elffile wb", "write elffile", "open elffile r+b", "write_changes elffile"}

\* every section of the layout is in the ELF object with its address and alignment
ElfObjPatched ==
    /\ elfobj.loaded
    /\ elfobj.e_entry = po.baseaddr
    /\ \A k \in 1..Len(sections_order) :
          \E j \in 1..Len(elfobj.sections) :
             /\ elfobj.sections[j].name = sections_order[k]
             /\ elfobj.sections[j].sh_addr = SectAddr(sections_order[k])
             /\ elfobj.sections[j].sh_addralign = sections_align[k]

\* C8: in a dry run the destination is never opened for writing, nothing is
\* written and no file is created or changed, and a run that completes has
\* scanned, resolved and reconciled the layout and patched the template in
\* memory.
C8_DryRun ==
    po.dry_run =>
        /\ fsops \cap WriteOps = {}
        /\ elffile \in {NoFile, OldFile}
        /\ pc = "done" =>
              /\ dict_has(po.section_addr, ".ARM.exidx")
              /\ Len(sections_order) > 0
              /\ Len(sections_align) = Len(sections_order)
              /\ Len(sections_pos) = Len(sections_order)
              /\ ElfObjPatched

C8_Witness ==
    /\ po.dry_run
    /\ pc = "done"
    /\ Len(scans) > 0
    /\ ElfObjPatched
    /\ elffile = NoFile
    /\ fsops = {"open tmplt rb"}

\* C9: when a conversion that is no dry run ends in a fatal error, the
\* destination file does not exist or is as it was.
C9_NoOutputAfterFailure ==
    (pc = "failed" /\ ~po.dry_run) => elffile \in {NoFile, OldFile}

\* what the run gives: the copy of the template left at the destination
C9_Observed ==
    /\ pc = "failed" /\ ~po.dry_run
    /\ error \in {"AttributeError", "Could not read section", "Couldn't read section"}
    /\ elffile.kind = "template"

\* the bytes of the image from the file position of sections_order[k] on
Available(k) ==
    IF wIsSmall(sections_pos[k]) /\ wSmall(sections_pos[k]) < Len(fwpartfile)
    THEN Len(fwpartfile) - wSmall(sections_pos[k]) ELSE 0

\* C10: a loaded section of size S > 0 whose file position has fewer than S
\* bytes after it makes the builder fail; in a conversion that completes the
\* payload of each loaded section of size S > 0 has exactly S bytes.
C10_ExactPayload ==
    pc \in {"done", "failed"} /\ elfobj.loaded =>
        \A k \in 1..Len(sections_order) : \A j \in 1..Len(elfobj.sections) :
            (/\ elfobj.sections[j].name = sections_order[k]
             /\ elfobj.sections[j].sh_type # "SHT_NOBITS"
             /\ wGt(SectSize(sections_order[k]), Zero))
            => /\ wLt(W(Available(k)), SectSize(sections_order[k])) => pc = "failed"
               /\ pc = "done" => W(elfobj.sections[j].data_len) = SectSize(sections_order[k])

\* what the run gives: a completed conversion with a payload shorter than the size
C10_Observed ==
    /\ pc = "done"
    /\ \E k \in 1..Len(sections_order) : \E j \in 1..Len(elfobj.sections) :
          /\ elfobj.sections[j].name = sections_order[k]
          /\ elfobj.sections[j].sh_type # "SHT_NOBITS"
          /\ wGt(SectSize(sections_order[k]), W(elfobj.sections[j].data_len))
          /\ elfobj.sections[j].data_len > 0

(***************************************************************************)
(* The pure functions                                                      *)
(***************************************************************************)

Prel31Returned == pc = "returned" /\ call.fn = "prel31_to_addr"
Bit30(field) == wGe(field, Hex40000000)

\* C5, as stated: for a field with bit 31 clear, prel31_to_addr(field,
\* reference) is >= reference - 2^30 when bit 30 of the field is 0 and
\* < reference when it is set.
C5_SideOfReference ==
    Prel31Returned =>
        LET field == call.args.ptr
            ref   == call.args.refptr
            res   == call.out[1]
        IN  /\ ~Bit30(field) => wGe(res, wSub(ref, Hex40000000))
            /\ Bit30(field) => wLt(res, ref)

\* C5, amended: the result is reference + offset modulo 2^32, the offset
\* being the field as a 31-bit two's complement number; when
\* reference + offset is within 0 .. 2^32 - 1 the result is >= reference if
\* bit 30 of the field is 0, and >= reference - 2^30 and < reference if it
\* is set.
C5_SideOfReferenceNoWrap ==
    Prel31Returned =>
        LET field == call.args.ptr
            ref   == call.args.refptr
            res   == call.out[1]
            sum   == wAdd(ref, Prel31Offset(field))
        IN  /\ res = Mod32(sum)
            /\ (wGe(sum, Zero) /\ wLt(sum, Hex100000000)) =>
                  /\ ~Bit30(field) => wGe(res, ref)
                  /\ Bit30(field) => (wGe(res, wSub(ref, Hex40000000)) /\ wLt(res, ref))

C5_Witness ==
    /\ Prel31Returned
    /\ call.args.ptr = <<32767, 65535>>
    /\ call.args.refptr = DefaultBase
    /\ call.out[1] = <<255, 65535>>

EntryReturned == pc = "returned" /\ call.fn = "armfw_is_proper_ARMexidx_entry"

\* the record of the call has entry == 1 and a table offset that is not 0,
\* has bit 31 clear and resolves to a multiple of the function alignment
\* strictly between the base and base + region end
SentinelInRange ==
    LET a == call.args
        t == ResolvedAddr(a.eexidx.tboffs, wAdd(a.memaddr_base, W(a.ent_pos)))
    IN  /\ a.eexidx.entry = W(1)
        /\ a.eexidx.tboffs # Zero
        /\ wLt(a.eexidx.tboffs, Hex80000000)
        /\ wGt(t, a.memaddr_base)
        /\ wLt(t, wAdd(a.memaddr_base, W(a.arr_pos)))
        /\ t[2] % a.func_align = 0

\* C6: the validator accepts every record with entry == 1 and a nonzero,
\* bit-31-clear, in-range, function-aligned table offset, and the verdict on
\* a record with entry == 1 is the same whatever the bytes of the image.
C6_SentinelAccepted ==
    EntryReturned =>
        /\ SentinelInRange => call.out[1] = "accept"
        /\ call.args.eexidx.entry = W(1) =>
              \A f \in EntryFiles :
                  armfw_is_proper_ARMexidx_entry(ExpectSectAlign, f, call.args.eexidx, call.args.memaddr_base,
                                                 call.args.func_align, call.args.arr_pos, call.args.ent_pos)
                  = call.out[1]

C6_Witness ==
    /\ EntryReturned
    /\ SentinelInRange
    /\ call.args.fwpartfile = Fill(0, 64)
    /\ call.args.ent_pos = call.args.arr_pos + 8
    /\ call.out[1] = "accept"

(***************************************************************************)
(* The address space                                                       *)
(***************************************************************************)

InSpace(addr) == wGe(addr, po.baseaddr) /\ wLe(addr, wAdd(po.baseaddr, po.addrspacelen))

\* C11: when the conversion completes, every section of the final layout
\* has its address in base .. base + addrspacelen.
C11_AddressesInSpace ==
    pc = "done" => \A i \in 1..Len(sections_order) : InSpace(SectAddr(sections_order[i]))

\* what the run gives: a completed conversion with .text below the base
C11_Observed ==
    /\ pc = "done"
    /\ ".text" \in {sections_order[i] : i \in 1..Len(sections_order)}
    /\ wLt(SectAddr(".text"), po.baseaddr)
    /\ \E j \in 1..Len(elfobj.sections) :
          elfobj.sections[j].name = ".text" /\ elfobj.sections[j].sh_addr = SectAddr(".text")

(***************************************************************************)
(* The alignments                                                          *)
(***************************************************************************)

AlignmentsInferred ==
    /\ pc \in {"get_sections_pos", "copy_template", "update_elffile", "done"}
    /\ Len(sections_align) = Len(sections_order)

\* C12, as stated: the alignment inferred for a section is never greater
\* than the expected section alignment.
C12_AlignAtMostExpected ==
    AlignmentsInferred => \A k \in 1..Len(sections_order) : sections_align[k] <= po.expect_sect_align

\* a divides the program integer n (a a power of two up to 2^16)
Divides(a, n) == n[2] % a = 0

\* C12, amended: the alignment inferred for a section is the largest of
\* 1, 2, 4, ... up to twice the expected section alignment that divides both
\* the address and the size of the section; it is never greater than twice
\* the expected section alignment.
C12_AlignAtMostTwiceExpected ==
    AlignmentsInferred =>
        \A k \in 1..Len(sections_order) :
            LET a    == sections_align[k]
                addr == SectAddr(sections_order[k])
                size == SectSize(sections_order[k])
            IN  /\ a \in {2 ^ e : e \in 0..5}
                /\ a <= 2 * po.expect_sect_align
                /\ Divides(a, addr) /\ Divides(a, size)
                /\ a < 2 * po.expect_sect_align => (~Divides(2 * a, addr) \/ ~Divides(2 * a, size))

\* a layout with a section aligned to twice the expected alignment and one
\* aligned to less than it
C12_Witness ==
    /\ AlignmentsInferred
    /\ \E k \in 1..Len(sections_order) : sections_align[k] = 2 * po.expect_sect_align
    /\ \E k \in 1..Len(sections_order) : sections_align[k] < po.expect_sect_align

(***************************************************************************)
(* The record scan: which run is returned                                  *)
(***************************************************************************)

\* the records counted from candidate position q on, reading at p: their
\* number and what ends the count ("eof", "reject" or "raise")
RECURSIVE RunStop(_, _)
RunStop(q, p) ==
    IF p + 8 > Len(fwpartfile) THEN [n |-> 0, stop |-> "eof"]
    ELSE LET v == armfw_is_proper_ARMexidx_entry(po.expect_sect_align, fwpartfile, RecordAt(p),
                                                 po.baseaddr, po.expect_func_align, q, p)
         IN  IF v = "accept"
             THEN LET r == RunStop(q, p + 8) IN [n |-> r.n + 1, stop |-> r.stop]
             ELSE [n |-> 0, stop |-> v]

ScanCandidates(align) == {align * k : k \in 0..(Len(fwpartfile) \div align + 1)}

\* the candidate position at which the scan ends: the first one whose count
\* meets the end of the file or raises
ScanEnd(align) ==
    LET ends == {q \in ScanCandidates(align) : RunStop(q, q).stop # "reject"}
    IN  CHOOSE q \in ends : \A q2 \in ends : q <= q2

\* the bytes from position e up to the next multiple of align are zero
PaddingZero(e, align) ==
    \A i \in e..(e + ((align - (e % align)) % align) - 1) : i < Len(fwpartfile) /\ fwpartfile[i + 1] = 0

\* the candidate positions of one scan at which a run is accepted
Accepted(align) ==
    UNION {{q \in ScanCandidates(align) :
               /\ q < last
               /\ \E r \in {RunStop(q, q)} : r.n >= 1 /\ PaddingZero(q + 8 * r.n, align)}
           : last \in {ScanEnd(align)}}

SetMax(S) == CHOOSE x \in S : \A y \in S : y <= x
SetMin(S) == CHOOSE x \in S : \A y \in S : x <= y

\* the record scans that returned (the last scan of a run that failed on a
\* seek did not)
ReturnedRecordScans ==
    {i \in 1..Len(scans) : scans[i].kind = "exidx" /\ ~(i = Len(scans) /\ error = "seek")}

MultipleMatchWarning(align) ==
    \E j \in 1..Len(warnings) : warnings[j] = [w |-> "multiple matches", align |-> align]

\* C13: a record scan at one alignment returns the accepted run at the
\* highest accepted candidate position, with that run's entry count times 8
\* as length (nothing when no run is accepted), and the multiple-match
\* warning is written exactly when more than one candidate was accepted.
C13_LastMatchWins ==
    \A i \in ReturnedRecordScans :
        \A A \in {Accepted(scans[i].align)} :
            /\ scans[i].match_count = Cardinality(A)
            /\ A = {} => scans[i].pos = -1
            /\ A # {} => /\ scans[i].pos = SetMax(A)
                         /\ scans[i].len = 8 * RunStop(SetMax(A), SetMax(A)).n
            /\ MultipleMatchWarning(scans[i].align) <=> Cardinality(A) > 1

\* a scan with two accepted runs, the earlier one the longer: the later one
\* is returned and the warning is written
C13_Witness ==
    \E i \in ReturnedRecordScans :
        \E A \in {Accepted(scans[i].align)} :
            /\ Cardinality(A) = 2
            /\ RunStop(SetMin(A), SetMin(A)).n > RunStop(SetMax(A), SetMax(A)).n
            /\ scans[i].pos = SetMax(A)
            /\ MultipleMatchWarning(scans[i].align)

(***************************************************************************)
(* The anchor search                                                       *)
(***************************************************************************)

\* the --section parameters that give the anchor an address
AnchorOverrides == {i \in 1..Len(po.section) : po.section[i].name = ".ARM.exidx" /\ po.section[i].addr # <<>>}

\* the anchor step has been taken
AnchorSettled == pc \notin {"main", "settle_sect_ARMexidx"} /\ error # "KeyError"

AnchorNotFound == pc = "failed" /\ error = "No matches found for section"

ScanIs(i, kind, align) == scans[i].kind = kind /\ scans[i].align = align

\* C14: without an address override the anchor is searched by the record scan
\* at the section alignment, then, only if that accepted nothing, by the
\* record scan at half of it, then, only if that accepted nothing either, by
\* the empty-region scan at the section alignment; the search fails only when
\* all three found nothing, and otherwise the anchor is where the last scan
\* run found it.  With an address override no scan runs and the anchor
\* address is the override.
C14_SearchOrder ==
    AnchorSettled =>
        IF AnchorOverrides # {}
        THEN /\ scans = <<>>
             /\ ~AnchorNotFound
             /\ SectAddr(".ARM.exidx") = po.section[SetMax(AnchorOverrides)].addr[1]
        ELSE /\ Len(scans) \in 1..3
             /\ ScanIs(1, "exidx", po.expect_sect_align)
             /\ Len(scans) >= 2 <=> Accepted(po.expect_sect_align) = {}
             /\ Len(scans) >= 2 => ScanIs(2, "exidx", po.expect_sect_align \div 2)
             /\ Len(scans) = 3 <=> (Accepted(po.expect_sect_align) = {}
                                    /\ Accepted(po.expect_sect_align \div 2) = {})
             /\ Len(scans) = 3 => ScanIs(3, "empty", po.expect_sect_align)
             /\ AnchorNotFound <=> (Len(scans) = 3 /\ \A i \in 1..3 : scans[i].pos < 0)
             /\ ~AnchorNotFound =>
                    /\ scans[Len(scans)].pos >= 0
                    /\ SectAddr(".ARM.exidx") = wAdd(po.baseaddr, W(scans[Len(scans)].pos))

\* what the run gives: the search ends in the first record scan, on a seek
\* to a position before the start of the image
C14_Observed ==
    /\ pc = "failed" /\ error = "seek"
    /\ AnchorOverrides = {}
    /\ Len(scans) = 1
    /\ ScanIs(1, "exidx", po.expect_sect_align)

(***************************************************************************)
(* The code region                                                         *)
(***************************************************************************)

\* no --section parameter names the code region
TextNotOverridden == \A i \in 1..Len(po.section) : po.section[i].name # ".text"

\* the step that settles the code region has just been taken
TextStepTaken ==
    \/ pc = "settle_sect_data"
    \/ pc = "failed" /\ error = "No place for section"

\* the span before the anchor
ExidxOffset == wSub(SectAddr(".ARM.exidx"), po.baseaddr)

\* C15: when the code region is not overridden, settling it fails if the span
\* before the anchor is smaller than 8 times the function alignment, and
\* otherwise places the code region at [base, base + exidx_offset).
C15_TextPlacedOrFails ==
    (TextStepTaken /\ TextNotOverridden) =>
        IF wLt(ExidxOffset, W(8 * po.expect_func_align))
        THEN pc = "failed"
        ELSE /\ pc = "settle_sect_data"
             /\ SectAddr(".text") = po.baseaddr
             /\ SectSize(".text") = ExidxOffset

\* what the run gives: the step fails with a span of exactly 8 times the
\* function alignment
C15_Observed ==
    /\ pc = "failed" /\ error = "No place for section"
    /\ TextNotOverridden
    /\ ExidxOffset = W(8 * po.expect_func_align)

(***************************************************************************)
(* The padding after a run                                                 *)
(***************************************************************************)

\* the candidate positions of one scan with a non-empty run of valid records
RunCandidates(align) ==
    UNION {{q \in ScanCandidates(align) : q < last /\ RunStop(q, q).n >= 1} : last \in {ScanEnd(align)}}

RunEndOf(q) == q + 8 * RunStop(q, q).n

OnBoundary(q, align) == RunEndOf(q) % align = 0

\* the bytes from position e up to the next multiple of align
PaddingBytes(e, align) == {fwpartfile[i + 1] : i \in e..(e + ((align - (e % align)) % align) - 1)}

\* C16, as stated: a run that does not end on a section boundary is kept iff
\* its padding holds one single byte value; the scan counts exactly the runs
\* that end on a boundary or have such a padding.
C16_UniformPaddingKept ==
    \A i \in ReturnedRecordScans :
        \A R \in {RunCandidates(scans[i].align)} :
            scans[i].match_count =
                Cardinality({q \in R : \/ OnBoundary(q, scans[i].align)
                                       \/ Cardinality(PaddingBytes(RunEndOf(q), scans[i].align)) = 1})

\* C16, amended: a run that does not end on a section boundary is kept iff
\* all bytes of its padding are zero; a padding of one other byte value
\* discards the run like a mixed padding does.  The scan counts exactly the
\* runs that end on a boundary or have a zero padding, and returns the
\* highest of them.
C16_ZeroPaddingKept ==
    \A i \in ReturnedRecordScans :
        \A R \in {RunCandidates(scans[i].align)} :
            LET kept == {q \in R : \/ OnBoundary(q, scans[i].align)
                                   \/ PaddingBytes(RunEndOf(q), scans[i].align) = {0}}
            IN  /\ scans[i].match_count = Cardinality(kept)
                /\ \A q \in R \ kept : scans[i].pos # q
                /\ kept # {} => scans[i].pos \in kept

\* a scan with a run whose padding is a fill of a non-zero byte and a run
\* whose padding is zero: only the second is counted and returned
C16_Witness ==
    \E i \in ReturnedRecordScans :
        \E q1, q2 \in RunCandidates(scans[i].align) :
            /\ ~OnBoundary(q1, scans[i].align) /\ ~OnBoundary(q2, scans[i].align)
            /\ Cardinality(PaddingBytes(RunEndOf(q1), scans[i].align)) = 1
            /\ PaddingBytes(RunEndOf(q1), scans[i].align) # {0}
            /\ PaddingBytes(RunEndOf(q2), scans[i].align) = {0}
            /\ scans[i].match_count = 1
            /\ scans[i].pos = q2

(***************************************************************************)
(* The order of the sections                                               *)
(***************************************************************************)

\* armfw_bin2elf_get_sections_order has just returned
OrderReturned == pc = "update_sect_sizes"

HasSize(name) == dict_has(po.section_size, name)

\* C17: the order holds every section with an address not above the
\* address-space limit exactly once, by non-decreasing address, and among
\* the sections of one address every section of size zero comes before
\* every section of non-zero size.
C17_SectionsOrder ==
    OrderReturned =>
        /\ {sections_order[i] : i \in 1..Len(sections_order)}
             = {k \in DOMAIN po.section_addr.val : wLe(SectAddr(k), AddrspaceLimit)}
        /\ \A i, j \in 1..Len(sections_order) :
              i < j =>
                 /\ sections_order[i] # sections_order[j]
                 /\ wLe(SectAddr(sections_order[i]), SectAddr(sections_order[j]))
                 /\ ~ /\ SectAddr(sections_order[i]) = SectAddr(sections_order[j])
                      /\ HasSize(sections_order[i]) /\ SectSize(sections_order[i]) # Zero
                      /\ HasSize(sections_order[j]) /\ SectSize(sections_order[j]) = Zero

\* what the run gives: at one address a section of negative size ordered
\* before a section of size zero
C17_Observed ==
    /\ OrderReturned
    /\ \E i, j \in 1..Len(sections_order) :
          /\ i < j
          /\ SectAddr(sections_order[i]) = SectAddr(sections_order[j])
          /\ HasSize(sections_order[i]) /\ wLt(SectSize(sections_order[i]), Zero)
          /\ HasSize(sections_order[j]) /\ SectSize(sections_order[j]) = Zero

(***************************************************************************)
(* The .bssN siblings                                                      *)
(***************************************************************************)

\* the --section parameters that give a .bssN sibling a size
SizedSiblingParams == {i \in 1..Len(po.section) : IsBssN(po.section[i].name) /\ po.section[i].len # <<>>}

SiblingNames == {po.section[i].name : i \in {i \in 1..Len(po.section) : IsBssN(po.section[i].name)}}

\* where a sibling is first declared with a size
DeclaredAt(n) == SetMin({i \in SizedSiblingParams : po.section[i].name = n})

HasSizeParam(n) == \E i \in SizedSiblingParams : po.section[i].name = n

HasAddrParam(n) == \E i \in 1..Len(po.section) : po.section[i].name = n /\ po.section[i].addr # <<>>

\* the section a sized sibling is chained to: the sized sibling declared
\* last before it, the primary .bss when there is none
ChainedTo(n) ==
    LET before == {i \in SizedSiblingParams : i < DeclaredAt(n) /\ po.section[i].name # n}
    IN  IF before = {} THEN ".bss" ELSE po.section[SetMax(before)].name

\* the step that settles .bss and its siblings has just been taken
BssStepTaken == pc = "get_sections_order"

\* C18: a .bssN sibling with an explicit size and no explicit address is at
\* the end (address + size) of the sized sibling declared before it, the
\* first one at the end of the primary .bss; a sibling declared without a
\* size is not chained: it has the address it was declared with, or none.
C18_SiblingsChained ==
    BssStepTaken =>
        \A n \in SiblingNames :
            IF HasSizeParam(n)
            THEN ~HasAddrParam(n) =>
                    /\ dict_has(po.section_addr, n)
                    /\ SectAddr(n) = wAdd(SectAddr(ChainedTo(n)), SectSize(ChainedTo(n)))
            ELSE IF HasAddrParam(n)
                 THEN SectAddr(n) = po.section[SetMax({i \in 1..Len(po.section) :
                                         po.section[i].name = n /\ po.section[i].addr # <<>>})].addr[1]
                 ELSE ~dict_has(po.section_addr, n)

\* .bss3 declared before .bss2, both with a size only: .bss3 follows the
\* primary .bss and .bss2 follows .bss3
C18_Witness ==
    /\ BssStepTaken
    /\ Len(po.section) = 2
    /\ po.section[1] = Param(".bss3", None, Sz(128))
    /\ po.section[2] = Param(".bss2", None, Sz(256))
    /\ SectAddr(".bss3") = wAdd(SectAddr(".bss"), SectSize(".bss"))
    /\ SectAddr(".bss2") = wAdd(SectAddr(".bss3"), W(128))
    /\ wGt(SectSize(".bss"), Zero)

(***************************************************************************)
(* The layout with no overrides                                            *)
(***************************************************************************)

NoOverrides == po.section = <<>>

\* the sizes have been back-filled without a fatal error
Reconciled == pc \in {"get_sections_align", "get_sections_pos", "copy_template", "update_elffile", "done"}

\* the image fits the address space, which ends at least one section
\* alignment below 2^32
SpaceFits ==
    /\ wLe(W(Len(fwpartfile)), po.addrspacelen)
    /\ wLe(wAdd(po.baseaddr, po.addrspacelen), wSub(Hex100000000, W(po.expect_sect_align)))

SectEnd(name) == wAdd(SectAddr(name), SectSize(name))

\* C19: with no overrides, an image no longer than the address space and an
\* address space that ends at or below 2^32 - section alignment, a resolved
\* and reconciled layout is .text, .ARM.exidx, .data, .bss tiling
\* [base, base + addrspacelen): .text starts at the base, each section
\* starts where the one before it ends, .data ends at base + image length,
\* .bss ends at base + addrspacelen, and the sizes are the inferred ones
\* (the anchor's from the scan that found it).
C19_Tiling ==
    (Reconciled /\ NoOverrides /\ SpaceFits) =>
        /\ sections_order = <<".text", ".ARM.exidx", ".data", ".bss">>
        /\ SectAddr(".text") = po.baseaddr
        /\ SectEnd(".text") = SectAddr(".ARM.exidx")
        /\ SectEnd(".ARM.exidx") = SectAddr(".data")
        /\ SectEnd(".data") = SectAddr(".bss")
        /\ SectEnd(".data") = wAdd(po.baseaddr, W(Len(fwpartfile)))
        /\ SectEnd(".bss") = wAdd(po.baseaddr, po.addrspacelen)
        /\ \A i \in 1..4 : wGe(SectSize(sections_order[i]), Zero)
        /\ SectAddr(".ARM.exidx") = wAdd(po.baseaddr, W(scans[Len(scans)].pos))
        /\ SectSize(".ARM.exidx") = W(scans[Len(scans)].len)

\* a completed conversion with four non-empty sections and an address space
\* that ends exactly at 2^32 - section alignment
C19_Witness ==
    /\ pc = "done" /\ NoOverrides /\ SpaceFits
    /\ wAdd(po.baseaddr, po.addrspacelen) = wSub(Hex100000000, W(po.expect_sect_align))
    /\ sections_order = <<".text", ".ARM.exidx", ".data", ".bss">>
    /\ \A i \in 1..4 : wGt(SectSize(sections_order[i]), Zero)

====
